---- MODULE Spec2Model ----
(***************************************************************************)
(* The 2048 engine (class Game2048): the grid, the score, the undo history *)
(* and the won/over flags, with the operations init, move and undo and the *)
(* callbacks they fire.                                                    *)
(***************************************************************************)
EXTENDS Integers, Sequences, FiniteSets, TLC

VARIABLES
    grid,       \* this.grid: Size rows of Size cells
    score,      \* this.score
    moved,      \* this.moved
    won,        \* this.won
    over,       \* this.over
    history,    \* this.history: sequence of [grid, score] snapshots
    refs,       \* the row arrays that this.grid and each snapshot's grid refer to
    call,       \* observer: the last call, [op, dir]
    ret,        \* observer: what the last call returned
    events,     \* observer: the callbacks the last call fired, in order
    pre,        \* observer: the engine on entry to the last move/undo of the session
    mid,        \* observer: the last move's grid, added score, merged before the spawn
    wins,       \* observer: onWin invocations since the last init()
    seen,       \* observer: committed moves since the last init() that left the target
    steps,      \* calls the behaviour may still make
    inits       \* init() calls the behaviour may still make

vars == <<grid, score, moved, won, over, history, refs, call, ret, events, pre, mid,
          wins, seen, steps, inits>>

(* ----------------------------- constants ------------------------------ *)

Size == 4

Target == 2048

maxHistorySize == 1

Dirs == {"left", "right", "up", "down"}

(* The number of calls in a behaviour of Spec. *)
MaxSteps == 3

(* The number of calls, the init() included, up to an init() in a         *)
(* behaviour of SpecNew, and the number of init() calls in it.            *)
MaxNewSteps == 2

MaxInits == 1

Idx == 1..Size

(* ------------------------------ helpers ------------------------------- *)

RECURSIVE SumSeq(_)
SumSeq(s) == IF s = <<>> THEN 0 ELSE Head(s) + SumSeq(Tail(s))

(* The array <<f[i], ..., f[n]>>, built element by element. *)
RECURSIVE mapIndex(_, _, _)
mapIndex(f, i, n) == IF i > n THEN <<>> ELSE <<f[i]>> \o mapIndex(f, i + 1, n)

(* Array.prototype.map and Array(n).fill: the array of f[1], ..., f[n]. *)
array(f) == mapIndex(f, 1, Cardinality(DOMAIN f))

(* row.slice().reverse() *)
reverse(row) == array([j \in 1..Len(row) |-> row[Len(row) + 1 - j]])

(* grid[0].map((_, colIndex) => grid.map(row => row[colIndex])) *)
transpose(g) ==
    LET column(c) == array([r \in 1..Len(g) |-> g[r][c]])
    IN array([colIndex \in 1..Len(g[1]) |-> column(colIndex)])

(* The third parameter (reverse) is accepted and never read. *)
rotateGrid(g, direction, rev) ==
    CASE direction = "left" -> g
      [] direction = "right" -> array([i \in 1..Len(g) |-> reverse(g[i])])
      [] direction = "up" -> transpose(g)
      [] direction = "down" ->
            LET t == transpose(g) IN array([i \in 1..Len(t) |-> reverse(t[i])])

(* Mutant: the rows compared as objects (row === newRow), never equal. *)
arraysEqual_byReference(a, b) == FALSE

arraysEqual(a, b) == Len(a) = Len(b) /\ \A k \in 1..Len(a) : a[k] = b[k]

(* Mutant: a merge that writes three times the tile, nonZero[i] * 3. *)
RECURSIVE mergeLoop_timesThree(_, _)
mergeLoop_timesThree(nonZero, i) ==
    IF i > Len(nonZero) THEN [row |-> <<>>, merged |-> <<>>]
    ELSE IF i < Len(nonZero) /\ nonZero[i] = nonZero[i + 1]
         THEN LET rest == mergeLoop_timesThree(nonZero, i + 2)
                  mergedValue == nonZero[i] * 3
              IN [row |-> <<mergedValue>> \o rest.row,
                  merged |-> <<mergedValue>> \o rest.merged]
         ELSE LET rest == mergeLoop_timesThree(nonZero, i + 1)
              IN [row |-> <<nonZero[i]>> \o rest.row, merged |-> rest.merged]

(* Mutant: the loop without the i++ that skips the second tile of a pair. *)
RECURSIVE mergeLoop_noSkip(_, _)
mergeLoop_noSkip(nonZero, i) ==
    IF i > Len(nonZero) THEN [row |-> <<>>, merged |-> <<>>]
    ELSE IF i < Len(nonZero) /\ nonZero[i] = nonZero[i + 1]
         THEN LET rest == mergeLoop_noSkip(nonZero, i + 1)
                  mergedValue == nonZero[i] * 2
              IN [row |-> <<mergedValue>> \o rest.row,
                  merged |-> <<mergedValue>> \o rest.merged]
         ELSE LET rest == mergeLoop_noSkip(nonZero, i + 1)
              IN [row |-> <<nonZero[i]>> \o rest.row, merged |-> rest.merged]

(* The for loop of moveLeft over nonZero, from index i (1-based) on:      *)
(* [row: the values pushed to newRow, merged: the merged values].         *)
RECURSIVE mergeLoop(_, _)
mergeLoop(nonZero, i) ==
    IF i > Len(nonZero) THEN [row |-> <<>>, merged |-> <<>>]
    ELSE IF i < Len(nonZero) /\ nonZero[i] = nonZero[i + 1]
         THEN LET rest == mergeLoop(nonZero, i + 2)
                  mergedValue == nonZero[i] * 2
              IN [row |-> <<mergedValue>> \o rest.row,
                  merged |-> <<mergedValue>> \o rest.merged]
         ELSE LET rest == mergeLoop(nonZero, i + 1)
              IN [row |-> <<nonZero[i]>> \o rest.row, merged |-> rest.merged]

(* while (newRow.length < this.size) newRow.push(0) *)
RECURSIVE padRow(_)
padRow(newRow) == IF Len(newRow) < Size THEN padRow(Append(newRow, 0)) ELSE newRow

(* Mutant: score += nonZero[i], the value of one source tile. *)
moveLeftRow_sourceScore(row) ==
    LET nonZero == SelectSeq(row, LAMBDA val : val # 0)
        m == mergeLoop(nonZero, 1)
        newRow == padRow(m.row)
    IN [row |-> newRow,
        score |-> SumSeq(m.merged) \div 2,
        merged |-> m.merged,
        moved |-> (m.merged # <<>>) \/ ~arraysEqual(row, newRow)]

(* One row of moveLeft: filter, merge loop, padding to this.size, and     *)
(* whether the row sets this.moved.                                       *)
moveLeftRow(row) ==
    LET nonZero == SelectSeq(row, LAMBDA val : val # 0)
        m == mergeLoop(nonZero, 1)
        newRow == padRow(m.row)
    IN [row |-> newRow,
        score |-> SumSeq(m.merged),
        merged |-> m.merged,
        moved |-> (m.merged # <<>>) \/ ~arraysEqual(row, newRow)]

(* The merged list: one {row, value} entry per merge, rows in order. *)
RECURSIVE mergedFrom(_, _)
mergedFrom(rows, rowIndex) ==
    IF rowIndex > Len(rows) THEN <<>>
    ELSE array([k \in 1..Len(rows[rowIndex].merged) |->
                   [row |-> rowIndex, value |-> rows[rowIndex].merged[k]]])
         \o mergedFrom(rows, rowIndex + 1)

(* moveLeft: [grid, score, merged] as returned, and moved for the value   *)
(* it leaves in this.moved (move() sets it to false before the call).     *)
moveLeft(g) ==
    LET rows == array([i \in 1..Len(g) |-> moveLeftRow(g[i])])
    IN [grid |-> array([i \in 1..Len(g) |-> rows[i].row]),
        score |-> SumSeq(array([i \in 1..Len(g) |-> rows[i].score])),
        merged |-> mergedFrom(rows, 1),
        moved |-> \E i \in 1..Len(g) : rows[i].moved]

hasValue(g, value) == \E i \in Idx, j \in Idx : g[i][j] = value

emptyCells(g) == {c \in Idx \X Idx : g[c[1]][c[2]] = 0}

(* Mutant: the empty-cell test inverted, grid[i][j] !== 0 for === 0. *)
isGameOver_invertedTest(g) ==
    IF \E i \in Idx, j \in Idx : g[i][j] # 0 THEN FALSE
    ELSE ~ \E i \in Idx, j \in Idx :
             \/ (j < Size /\ g[i][j] = g[i][j + 1])
             \/ (i < Size /\ g[i][j] = g[i + 1][j])

(* Mutant: only the check to the right, the check downward left out. *)
isGameOver_rowsOnly(g) ==
    IF \E i \in Idx, j \in Idx : g[i][j] = 0 THEN FALSE
    ELSE ~ \E i \in Idx, j \in Idx : j < Size /\ g[i][j] = g[i][j + 1]

isGameOver(g) ==
    IF \E i \in Idx, j \in Idx : g[i][j] = 0 THEN FALSE
    ELSE ~ \E i \in Idx, j \in Idx :
             \/ (j < Size /\ g[i][j] = g[i][j + 1])
             \/ (i < Size /\ g[i][j] = g[i + 1][j])

(* The outcomes of the two Math.random() draws of addRandomTile: a cell   *)
(* of emptyCells and 2 or 4; one dummy outcome when there is no empty cell. *)
tileChoices(g) ==
    IF emptyCells(g) = {} THEN {<<0, 0, 0>>}
    ELSE {<<c[1], c[2], v>> : c \in emptyCells(g), v \in {2, 4}}

addRandomTile(g, t) ==
    IF emptyCells(g) = {} THEN g
    ELSE [g EXCEPT ![t[1]][t[2]] = t[3]]

(* Mutant: saveState without the shift() beyond maxHistorySize. *)
saveState_unbounded(h, g, s) == Append(h, [grid |-> g, score |-> s])

(* saveState: push a copy of (grid, score), drop the oldest beyond the cap. *)
saveState(h, g, s) ==
    LET pushed == Append(h, [grid |-> g, score |-> s])
    IN IF Len(pushed) > maxHistorySize THEN Tail(pushed) ELSE pushed

(* ------------------------------ row arrays ---------------------------- *)

(* A grid is an array of references to row arrays, and row arrays are    *)
(* created Size at a time, one for each row of a grid: by init (line 30), *)
(* saveState (line 40), rotateGrid (lines 127-132), transpose (line 137)  *)
(* and moveLeft (line 143); no statement stores a single row into another *)
(* grid. refs numbers these creations: refs.grid = n says that the rows   *)
(* of this.grid are the arrays RowSet(n) of creation n, refs.history[k]   *)
(* says the same of the k-th snapshot's grid. Only addRandomTile writes   *)
(* into an existing row array, a row of this.grid.                        *)
RowSet(n) == {<<n, i>> : i \in 1..Size}

UsedRows(r) == {r.grid} \cup {r.history[k] : k \in 1..Len(r.history)}

(* Size row arrays newly created while those of r are in use. *)
newRows(r) == CHOOSE n \in 1..(Cardinality(UsedRows(r)) + 1) : n \notin UsedRows(r)

(* Mutant: grid: this.grid, the snapshot referring to the live rows. *)
saveStateRows_byReference(r) ==
    LET pushed == Append(r.history, r.grid)
    IN [r EXCEPT !.history = IF Len(pushed) > maxHistorySize THEN Tail(pushed)
                             ELSE pushed]

(* saveState: this.grid.map(row => [...row]) creates a new array per row. *)
saveStateRows(r) ==
    LET pushed == Append(r.history, newRows(r))
    IN [r EXCEPT !.history = IF Len(pushed) > maxHistorySize THEN Tail(pushed)
                             ELSE pushed]

(* move() past its first line: saveState, then this.grid is assigned the  *)
(* rows moveLeft created with grid.map (rotateGrid returns them as they   *)
(* are for 'left' and maps them to new arrays otherwise).                 *)
moveRows(r, direction) ==
    LET saved == saveStateRows(r)
    IN [saved EXCEPT !.grid = newRows(saved)]

(* undo(): this.grid = state.grid, the popped snapshot's own rows. *)
undoRows(r) ==
    [grid |-> r.history[Len(r.history)],
     history |-> SubSeq(r.history, 1, Len(r.history) - 1)]

(* init(): a new array per row; the history is not touched. *)
initRows(r) == [r EXCEPT !.grid = newRows(r)]

(* A row array has no name in the program, only an identity: states that  *)
(* differ in nothing but the numbers are one state. After a call the      *)
(* creations are numbered in the order this.grid, the snapshots oldest    *)
(* first, then those only the state before the call refers to.            *)
RECURSIVE distinctFrom(_, _)
distinctFrom(list, found) ==
    IF list = <<>> THEN <<>>
    ELSE IF Head(list) \in found THEN distinctFrom(Tail(list), found)
         ELSE <<Head(list)>> \o distinctFrom(Tail(list), found \cup {Head(list)})

renumbering(after, before) ==
    distinctFrom(<<after.grid>> \o after.history \o <<before.grid>> \o before.history, {})

numberOf(d, n) == CHOOSE i \in 1..Len(d) : d[i] = n

renumbered(r, d) ==
    [grid |-> numberOf(d, r.grid),
     history |-> array([k \in 1..Len(r.history) |-> numberOf(d, r.history[k])])]

(* ------------------------------ observers ----------------------------- *)

(* Array(this.size).fill(null).map(() => Array(this.size).fill(0)) *)
EmptyGrid == array([i \in 1..Size |-> array([j \in 1..Size |-> 0])])

NoMid == [grid |-> EmptyGrid, score |-> 0, merged |-> <<>>]

NoState == [grid |-> EmptyGrid, score |-> 0, moved |-> FALSE, won |-> FALSE,
            over |-> FALSE, history |-> <<>>,
            refs |-> [grid |-> 0, history |-> <<>>]]

(* The engine's fields as one record. *)
Now == [grid |-> grid, score |-> score, moved |-> moved, won |-> won,
        over |-> over, history |-> history, refs |-> refs]

(* One callback invocation: its arguments, and the flags as they stand    *)
(* when it is invoked.                                                    *)
Event(cb, g, sc, tag, w, o) ==
    [cb |-> cb, grid |-> g, score |-> sc, undo |-> tag, won |-> w, over |-> o]

Count(evs, cb) == Len(SelectSeq(evs, LAMBDA e : e.cb = cb))

(* ----------------------------- operations ----------------------------- *)

(* Mutant: init() with a single addRandomTile call. *)
init_oneTile(s, t1, t2) ==
    [s EXCEPT !.grid = addRandomTile(EmptyGrid, t1),
              !.score = 0,
              !.won = FALSE,
              !.over = FALSE,
              !.refs = initRows(s.refs)]

(* init() on the engine s, with t1 and t2 the outcomes of its two         *)
(* addRandomTile calls: moved and history are not touched.                *)
init(s, t1, t2) ==
    [s EXCEPT !.grid = addRandomTile(addRandomTile(EmptyGrid, t1), t2),
              !.score = 0,
              !.won = FALSE,
              !.over = FALSE,
              !.refs = initRows(s.refs)]

(* Mutant: undo() that notifies onUpdate even when the history is empty. *)
undo_emptyNotifies(s) ==
    IF Len(s.history) = 0
    THEN [state |-> s, ret |-> "false",
          events |-> <<Event("onUpdate", s.grid, s.score, TRUE, s.won, s.over)>>]
    ELSE LET state == s.history[Len(s.history)]
         IN [state |-> [s EXCEPT !.history = SubSeq(s.history, 1, Len(s.history) - 1),
                                 !.refs = undoRows(s.refs),
                                 !.grid = state.grid,
                                 !.score = state.score,
                                 !.over = FALSE],
             ret |-> "true",
             events |-> <<Event("onUpdate", state.grid, state.score, TRUE, s.won, FALSE)>>]

(* Mutant: undo() that notifies onUpdate without the { undo: true } tag. *)
undo_untagged(s) ==
    IF Len(s.history) = 0
    THEN [state |-> s, ret |-> "false", events |-> <<>>]
    ELSE LET state == s.history[Len(s.history)]
         IN [state |-> [s EXCEPT !.history = SubSeq(s.history, 1, Len(s.history) - 1),
                                 !.refs = undoRows(s.refs),
                                 !.grid = state.grid,
                                 !.score = state.score,
                                 !.over = FALSE],
             ret |-> "true",
             events |-> <<Event("onUpdate", state.grid, state.score, FALSE, s.won, FALSE)>>]

(* Mutant: undo() without this.over = false. *)
undo_keepsOver(s) ==
    IF Len(s.history) = 0
    THEN [state |-> s, ret |-> "false", events |-> <<>>]
    ELSE LET state == s.history[Len(s.history)]
         IN [state |-> [s EXCEPT !.history = SubSeq(s.history, 1, Len(s.history) - 1),
                                 !.refs = undoRows(s.refs),
                                 !.grid = state.grid,
                                 !.score = state.score],
             ret |-> "true",
             events |-> <<Event("onUpdate", state.grid, state.score, TRUE, s.won, s.over)>>]

(* Mutant: undo() that also takes back the won flag. *)
undo_clearsWon(s) ==
    IF Len(s.history) = 0
    THEN [state |-> s, ret |-> "false", events |-> <<>>]
    ELSE LET state == s.history[Len(s.history)]
         IN [state |-> [s EXCEPT !.history = SubSeq(s.history, 1, Len(s.history) - 1),
                                 !.refs = undoRows(s.refs),
                                 !.grid = state.grid,
                                 !.score = state.score,
                                 !.won = FALSE,
                                 !.over = FALSE],
             ret |-> "true",
             events |-> <<Event("onUpdate", state.grid, state.score, TRUE, FALSE, FALSE)>>]

(* undo() on the engine s: [state, ret, events]. *)
undo(s) ==
    IF Len(s.history) = 0
    THEN [state |-> s, ret |-> "false", events |-> <<>>]
    ELSE LET state == s.history[Len(s.history)]
         IN [state |-> [s EXCEPT !.history = SubSeq(s.history, 1, Len(s.history) - 1),
                                 !.refs = undoRows(s.refs),
                                 !.grid = state.grid,
                                 !.score = state.score,
                                 !.over = FALSE],
             ret |-> "true",
             events |-> <<Event("onUpdate", state.grid, state.score, TRUE, s.won, FALSE)>>]

(* The grid move(direction) passes to addRandomTile. *)
slide(g, direction) ==
    rotateGrid(moveLeft(rotateGrid(g, direction, FALSE)).grid, direction, TRUE)

(* The outcomes of addRandomTile as move(direction) on s may draw them. *)
moveChoices(s, direction) ==
    IF ~moveLeft(rotateGrid(s.grid, direction, FALSE)).moved
    THEN {<<0, 0, 0>>}
    ELSE tileChoices(slide(s.grid, direction))

(* move(direction) past its first line, with t the outcome of             *)
(* addRandomTile: [state, ret, events, mid], mid being the grid, the      *)
(* added score and the merged list as they stand before the spawn.        *)
moveFrom(s, direction, t) ==
    LET saved == saveState(s.history, s.grid, s.score)
        rotatedGrid == rotateGrid(s.grid, direction, FALSE)
        res == moveLeft(rotatedGrid)
        restored == rotateGrid(res.grid, direction, TRUE)
        newScore == IF res.score > 0 THEN s.score + res.score ELSE s.score
        before == [grid |-> restored, score |-> res.score, merged |-> res.merged]
    IN IF res.moved
       THEN LET g == addRandomTile(restored, t)
                win == ~s.won /\ hasValue(g, Target)
                lost == isGameOver(g)
            IN [state |-> [grid |-> g, score |-> newScore, moved |-> TRUE,
                           won |-> (s.won \/ win),
                           over |-> (IF lost THEN TRUE ELSE s.over),
                           history |-> saved,
                           refs |-> moveRows(s.refs, direction)],
                ret |-> "true",
                events |->
                    <<Event("onUpdate", g, newScore, FALSE, s.won, s.over)>>
                    \o (IF win
                        THEN <<Event("onWin", g, newScore, FALSE, TRUE, s.over)>>
                        ELSE <<>>)
                    \o (IF lost
                        THEN <<Event("onGameOver", g, newScore, FALSE,
                                     s.won \/ win, TRUE)>>
                        ELSE <<>>),
                mid |-> before]
       ELSE [state |-> [grid |-> restored, score |-> newScore, moved |-> FALSE,
                        won |-> s.won, over |-> s.over, history |-> saved,
                        refs |-> moveRows(s.refs, direction)],
             ret |-> "false",
             events |-> <<>>,
             mid |-> before]

(* Mutant: move() without its first line, if (this.over) return. *)
move_noOverCheck(s, direction, t) == moveFrom(s, direction, t)

(* move(direction) on the engine s. *)
move(s, direction, t) ==
    IF s.over
    THEN [state |-> s, ret |-> "undefined", events |-> <<>>, mid |-> NoMid]
    ELSE moveFrom(s, direction, t)

(* ------------------------------- actions ------------------------------ *)

Becomes(s) ==
    /\ grid' = s.grid
    /\ score' = s.score
    /\ moved' = s.moved
    /\ won' = s.won
    /\ over' = s.over
    /\ history' = s.history
    /\ \E d \in {renumbering(s.refs, refs)} : refs' = renumbered(s.refs, d)

(* pre is the state a call found, its row arrays numbered as in the state *)
(* s the call leaves.                                                     *)
Entered(s) ==
    \E d \in {renumbering(s.refs, refs)} :
        pre' = [Now EXCEPT !.refs = renumbered(refs, d)]

(* One call of move(direction), and what the observers record of it. *)
MoveCall(direction) ==
    /\ \E t \in moveChoices(Now, direction) :
         \E r \in {move(Now, direction, t)} :
            /\ Becomes(r.state)
            /\ ret' = r.ret
            /\ events' = r.events
            /\ mid' = r.mid
            /\ wins' = wins + Count(r.events, "onWin")
            /\ seen' = IF r.ret = "true" /\ hasValue(r.state.grid, Target)
                       THEN seen + 1 ELSE seen
            /\ Entered(r.state)
    /\ call' = [op |-> "move", dir |-> direction]

Move(direction) ==
    /\ steps > 0
    /\ steps' = steps - 1
    /\ inits' = inits
    /\ MoveCall(direction)

(* A caller that issues move(direction) only when it will return true,    *)
(* and as often as it likes.                                              *)
Play(direction) ==
    /\ ~over
    /\ moveLeft(rotateGrid(grid, direction, FALSE)).moved
    /\ MoveCall(direction)
    /\ UNCHANGED <<steps, inits>>

Undo ==
    /\ steps > 0
    /\ steps' = steps - 1
    /\ inits' = inits
    /\ \E r \in {undo(Now)} :
            /\ Becomes(r.state)
            /\ ret' = r.ret
            /\ events' = r.events
            /\ wins' = wins + Count(r.events, "onWin")
            /\ Entered(r.state)
    /\ call' = [op |-> "undo", dir |-> "none"]
    /\ UNCHANGED <<mid, seen>>

(* init(), as startNewGame calls it on the constructed engine: a new      *)
(* session for the observers. A behaviour makes one more call after it.   *)
(* init() reads nothing of what an init() before it wrote, so two in a    *)
(* row leave the engine as the second alone does: a behaviour makes       *)
(* another call in between.                                               *)
NewGame ==
    /\ steps > 0
    /\ inits > 0
    /\ call.op # "init"
    /\ steps' = 1
    /\ inits' = inits - 1
    /\ \E t1 \in tileChoices(EmptyGrid) :
         \E t2 \in tileChoices(addRandomTile(EmptyGrid, t1)) :
            Becomes(init(Now, t1, t2))
    /\ call' = [op |-> "init", dir |-> "none"]
    /\ ret' = "undefined"
    /\ events' = <<>>
    /\ pre' = NoState
    /\ mid' = NoMid
    /\ wins' = 0
    /\ seen' = 0

(* ---------------------------- specifications -------------------------- *)

(* log2 of a tile value. *)
RECURSIVE Log2(_)
Log2(v) == IF v <= 1 THEN 0 ELSE 1 + Log2(v \div 2)

(* this.grid.flat() *)
Cells(g) ==
    array([k \in 1..Size * Size |-> g[((k - 1) \div Size) + 1][((k - 1) % Size) + 1]])

(* The score of a game that shows grid g and spawned only 2s: each tile v *)
(* was built by merges worth v * (log2(v) - 1) in all.                    *)
ScoreOf(g) ==
    LET cells == Cells(g)
    IN SumSeq(array([k \in 1..Size * Size |->
                       IF cells[k] = 0 THEN 0 ELSE cells[k] * (Log2(cells[k]) - 1)]))

(* The row arrays of the grid the constructor's init() created. *)
FirstRows == 1

NoCall == [op |-> "none", dir |-> "none"]

Unobserved ==
    /\ call = NoCall
    /\ ret = "undefined"
    /\ events = <<>>
    /\ pre = NoState
    /\ mid = NoMid

(* Grids of games in progress, each a few calls away from a win, a loss   *)
(* or a rejected move.                                                    *)
StartGrids ==
    { << <<2, 4, 8, 16>>, <<4, 8, 16, 32>>, <<8, 16, 32, 64>>, <<0, 32, 64, 128>> >>,
      << <<1024, 1024, 2, 4>>, <<2, 4, 8, 16>>, <<4, 8, 16, 32>>, <<8, 16, 32, 2>> >>,
      << <<4, 2, 4, 2>>, <<2, 4, 2, 4>>, <<4, 2, 4, 2>>, <<2, 4, 8, 8>> >>,
      << <<2, 4, 8, 16>>, <<4, 2, 4, 8>>, <<2, 4, 2, 4>>, <<0, 0, 0, 0>> >> }

(* A game in progress with nothing to undo, as an undo() leaves it. *)
Init ==
    /\ grid \in StartGrids
    /\ score = ScoreOf(grid)
    /\ moved = FALSE
    /\ won = FALSE
    /\ over = FALSE
    /\ history = <<>>
    /\ refs = [grid |-> FirstRows, history |-> <<>>]
    /\ Unobserved
    /\ wins = 0
    /\ seen = 0
    /\ steps = MaxSteps
    /\ inits = 0

Next ==
    \/ \E direction \in Dirs : Move(direction)
    \/ Undo

Spec == Init /\ [][Next]_vars

(* move(direction) applied once to each grid built from SlideRows. *)
SlideRows ==
    { <<2, 2, 2, 0>>, <<4, 4, 4, 4>>, <<2, 2, 4, 4>>, <<0, 2, 0, 2>>, <<2, 4, 2, 4>> }

SlideGrids == {<<r1, r2, r3, r4>> : r1 \in SlideRows, r2 \in SlideRows,
                                    r3 \in SlideRows, r4 \in SlideRows}

InitSlide ==
    /\ grid \in SlideGrids
    /\ score = ScoreOf(grid)
    /\ moved = FALSE
    /\ won = FALSE
    /\ over = FALSE
    /\ history = <<>>
    /\ refs = [grid |-> FirstRows, history |-> <<>>]
    /\ Unobserved
    /\ wins = 0
    /\ seen = 0
    /\ steps = 1
    /\ inits = 0

NextSlide == \E direction \in Dirs : Move(direction)

SpecSlide == InitSlide /\ [][NextSlide]_vars

(* A game that was won and then lost by a move to the left that merged    *)
(* nothing, and what a new game makes of it.                              *)
LostGrid ==
    << <<2, 4, 8, 16>>, <<4, 8, 16, 32>>, <<8, 16, 32, 64>>, <<2048, 32, 64, 2>> >>

BeforeLost ==
    << <<2, 4, 8, 16>>, <<4, 8, 16, 32>>, <<8, 16, 32, 64>>, <<0, 2048, 32, 64>> >>

InitNew ==
    /\ grid = LostGrid
    /\ score = ScoreOf(LostGrid)
    /\ moved = TRUE
    /\ won = TRUE
    /\ over = TRUE
    /\ history = <<[grid |-> BeforeLost, score |-> ScoreOf(LostGrid)]>>
    /\ refs = [grid |-> FirstRows, history |-> <<newRows([grid |-> FirstRows, history |-> <<>>])>>]
    /\ Unobserved
    /\ wins = 1
    /\ seen = 1
    /\ steps = MaxNewSteps
    /\ inits = MaxInits

NextNew ==
    \/ \E direction \in Dirs : Move(direction)
    \/ Undo
    \/ NewGame

SpecNew == InitNew /\ [][NextNew]_vars

(* Forward play to the end: games up to seven moves away from their last  *)
(* move, played with committed moves only, no undo() and no init().       *)
PlayGrids ==
    { << <<16, 32, 16, 32>>, <<64, 128, 64, 128>>, <<256, 512, 256, 4>>, <<1024, 8, 4, 0>> >>,
      << <<16, 32, 16, 32>>, <<64, 128, 64, 128>>, <<256, 512, 256, 2>>, <<1024, 8, 2, 0>> >> }

InitPlay ==
    /\ grid \in PlayGrids
    /\ score = ScoreOf(grid)
    /\ moved = FALSE
    /\ won = FALSE
    /\ over = FALSE
    /\ history = <<>>
    /\ refs = [grid |-> FirstRows, history |-> <<>>]
    /\ Unobserved
    /\ wins = 0
    /\ seen = 0
    /\ steps = 0
    /\ inits = 0

NextPlay == \E direction \in Dirs : Play(direction)

(* Some move(direction) will return true: the enabling condition of      *)
(* NextPlay, written out as a state predicate.                            *)
CanPlay == ~over /\ \E direction \in Dirs :
                      moveLeft(rotateGrid(grid, direction, FALSE)).moved

(* Weak fairness of NextPlay, with CanPlay for ENABLED <<NextPlay>>_vars: *)
(* the caller does not stop while some move would return true.            *)
PlayFairness == ([]<>(~CanPlay)) \/ ([]<><<NextPlay>>_vars)

SpecPlay == InitPlay /\ [][NextPlay]_vars /\ PlayFairness

(* ------------------------------- claims ------------------------------- *)

Committed == call.op = "move" /\ ret = "true"

NoOp == call.op = "move" /\ ret = "false"

Tiles(g) == Cardinality({c \in Idx \X Idx : g[c[1]][c[2]] # 0})

(* Reference sliding of one line toward its first element. *)
RECURSIVE MergePairs(_)
MergePairs(line) ==
    IF Len(line) < 2 THEN line
    ELSE IF line[1] = line[2]
         THEN <<line[1] + line[2]>> \o MergePairs(SubSeq(line, 3, Len(line)))
         ELSE <<line[1]>> \o MergePairs(Tail(line))

RefLine(line) ==
    LET packed == MergePairs(SelectSeq(line, LAMBDA v : v > 0))
    IN array([k \in 1..Len(line) |-> IF k <= Len(packed) THEN packed[k] ELSE 0])

(* Reference sliding of a grid: each row (left, right) or column (up,     *)
(* down) slides toward the edge the direction names and stays in place.   *)
RefSlide(g, d) ==
    LET Row(i) == g[i]
        Col(j) == array([i \in 1..Size |-> g[i][j]])
        Back(line) == array([k \in 1..Size |-> line[Size + 1 - k]])
        rows == array([i \in 1..Size |-> IF d = "left" THEN RefLine(Row(i))
                                    ELSE Back(RefLine(Back(Row(i))))])
        cols == array([j \in 1..Size |-> IF d = "up" THEN RefLine(Col(j))
                                    ELSE Back(RefLine(Back(Col(j))))])
    IN IF d \in {"left", "right"} THEN rows
       ELSE array([i \in 1..Size |-> array([j \in 1..Size |-> cols[j][i]])])

(* C1: a move that returns false leaves the grid cell for cell as it was  *)
(* and the score unchanged (so no tile was spawned).                      *)
C1_NoOpInvariance == NoOp => (grid = pre.grid /\ score = pre.score)

(* C2: a move that returns false leaves the history stack as it was.      *)
C2_NoOpKeepsHistory == NoOp => history = pre.history

(* C3: undo() right after a committed move returns true, restores the     *)
(* grid and score from before that move and leaves over false.            *)
C3_UndoRoundTrip ==
    [][(Committed /\ call'.op = "undo")
         => (ret' = "true" /\ grid' = pre.grid /\ score' = pre.score /\ over' = FALSE)]_vars

C3_UndoOutOfLoss ==
    call.op = "undo" /\ ret = "true" /\ pre.over /\ pre.moved /\ ~over

(* C4: for every direction, the grid move(d) has before the spawn is the  *)
(* reference slide of the grid toward the edge d names.                   *)
C4_SlideMatchesReference ==
    (call.op = "move" /\ ret # "undefined") => mid.grid = RefSlide(pre.grid, call.dir)

(* C5: moveLeft gathers each row's non-zero values, merges adjacent equal *)
(* pairs from the leading edge, never merges a merged tile again and pads *)
(* the row with zeros to length Size.                                     *)
C5_NoChainMerge ==
    (call.op = "move" /\ call.dir = "left" /\ ret # "undefined")
      => \A i \in Idx :
           /\ Len(mid.grid[i]) = Size
           /\ mid.grid[i] = RefLine(pre.grid[i])
           /\ (pre.grid[i] = <<2, 2, 2, 0>> => mid.grid[i] = <<4, 2, 0, 0>>)
           /\ (pre.grid[i] = <<4, 4, 4, 4>> => mid.grid[i] = <<8, 8, 0, 0>>)
           /\ (pre.grid[i] = <<2, 2, 4, 4>> => mid.grid[i] = <<4, 8, 0, 0>>)

C5_ThreeExamples ==
    /\ call.op = "move" /\ call.dir = "left"
    /\ pre.grid[1] = <<2, 2, 2, 0>> /\ mid.grid[1] = <<4, 2, 0, 0>>
    /\ pre.grid[2] = <<4, 4, 4, 4>> /\ mid.grid[2] = <<8, 8, 0, 0>>
    /\ pre.grid[3] = <<2, 2, 4, 4>> /\ mid.grid[3] = <<4, 8, 0, 0>>

(* v * log2(v) summed over the tiles: a merge of two tiles v raises it by *)
(* 2v, the value of the merged tile, and sliding leaves it alone.         *)
Weight(g) ==
    LET cells == Cells(g)
    IN SumSeq(array([k \in 1..Size * Size |-> cells[k] * Log2(cells[k])]))

MergedTotal(merged) == SumSeq(array([k \in 1..Len(merged) |-> merged[k].value]))

(* C6: after a move that returns true the score is the score before plus  *)
(* the values of the merged tiles the move created, each counted once.    *)
C6_ScoreConservation ==
    Committed =>
      /\ score = pre.score + MergedTotal(mid.merged)
      /\ Len(mid.merged) = Tiles(pre.grid) - Tiles(mid.grid)
      /\ score - pre.score = Weight(mid.grid) - Weight(pre.grid)

C6_TwoMerges == Committed /\ Len(mid.merged) >= 2 /\ score > pre.score

(* C7: after a move that returns true the grid before the spawn has an    *)
(* empty cell, and the spawn changes exactly one cell, from 0 to 2 or 4.  *)
C7_SpawnCount ==
    Committed =>
      /\ emptyCells(mid.grid) # {}
      /\ \E c \in emptyCells(mid.grid) :
           /\ grid[c[1]][c[2]] \in {2, 4}
           /\ \A o \in (Idx \X Idx) \ {c} : grid[o[1]][o[2]] = mid.grid[o[1]][o[2]]
      /\ Tiles(grid) = Tiles(mid.grid) + 1

C7_LastCellFilled == Committed /\ Cardinality(emptyCells(mid.grid)) = 1

Adjacent == {p \in (Idx \X Idx) \X (Idx \X Idx) :
               \/ (p[1][1] = p[2][1] /\ p[2][2] = p[1][2] + 1)
               \/ (p[1][2] = p[2][2] /\ p[2][1] = p[1][1] + 1)}

Stuck(g) ==
    /\ Tiles(g) = Size * Size
    /\ \A p \in Adjacent : g[p[1][1]][p[1][2]] # g[p[2][1]][p[2][2]]

(* C8: after a committed move, over is true exactly when the grid is full *)
(* and no two horizontally or vertically adjacent cells are equal.        *)
C8_LossDetection == Committed => (over <=> Stuck(grid))

C8_LostByMove == Committed /\ over /\ Stuck(grid)

(* C9: while over is true, move(d) leaves grid, score, history, won and   *)
(* over unchanged and fires no callback; after init() moves are accepted. *)
C9_LostRejectsMoves ==
    /\ (call.op = "move" /\ pre.over)
         => (/\ grid = pre.grid /\ score = pre.score /\ history = pre.history
             /\ won = pre.won /\ over = pre.over
             /\ events = <<>>)
    /\ (call.op = "move" /\ ~pre.over) => ret \in {"true", "false"}
    /\ call.op = "init" => ~over

C9_RejectedMove == call.op = "move" /\ pre.over /\ ret = "undefined" /\ over

(* C10: within one session onWin fires at most once, and exactly once     *)
(* once a committed move has put the target on the grid, however often    *)
(* the target is shown or reached again.                                  *)
C10_WinOnce == wins <= 1 /\ (wins = 1 <=> seen >= 1)

C10_TargetReachedAgain ==
    Committed /\ seen = 2 /\ wins = 1 /\ ~hasValue(pre.grid, Target)
              /\ hasValue(grid, Target)

(* C11: won, once true, stays true across every move and undo call; only  *)
(* init() sets it back to false; and while won is true and over is false  *)
(* a move is carried out as in any other state.                           *)
C11_WonSticky ==
    [][/\ (won /\ ~won') => call'.op = "init"
       /\ (won /\ call'.op \in {"move", "undo"}) => won'
       /\ (won /\ ~over /\ call'.op = "move")
            => /\ ret' \in {"true", "false"}
               /\ ret' = "true" <=> moveLeft(rotateGrid(grid, call'.dir, FALSE)).moved]_vars

C11_PlayAfterWin ==
    Committed /\ pre.won /\ ~pre.over /\ pre.history = <<>> /\ won

(* C12: after init() the grid has Size rows of Size cells, exactly two of *)
(* them non-zero, each 2 or 4, the score is 0 and won and over are false. *)
C12_InitialState ==
    call.op = "init" =>
      /\ Len(grid) = Size
      /\ \A i \in Idx : Len(grid[i]) = Size
      /\ Tiles(grid) = 2
      /\ \A c \in Idx \X Idx : grid[c[1]][c[2]] \in {0, 2, 4}
      /\ score = 0
      /\ ~won
      /\ ~over

C12_NewGameDealt ==
    call.op = "init" /\ hasValue(grid, 2) /\ hasValue(grid, 4) /\ Tiles(grid) = 2

(* C13: undo() on an empty history returns false, leaves grid, score,     *)
(* won, over and history as they were and invokes no callback.            *)
C13_EmptyUndo ==
    (call.op = "undo" /\ pre.history = <<>>) =>
      /\ ret = "false"
      /\ grid = pre.grid
      /\ score = pre.score
      /\ won = pre.won
      /\ over = pre.over
      /\ history = <<>>
      /\ events = <<>>

C13_NothingToUndo ==
    call.op = "undo" /\ pre.history = <<>> /\ pre.moved /\ ret = "false"
                     /\ Tiles(grid) > 0

(* C14: the history never holds more than maxHistorySize snapshots; a     *)
(* push onto a full history drops the oldest snapshot; and an undo()      *)
(* right after a successful undo() returns false.                         *)
C14_HistoryBounded ==
    /\ [](Len(history) <= maxHistorySize)
    /\ []((call.op = "move" /\ ret # "undefined" /\ Len(pre.history) = maxHistorySize)
            => history = Tail(pre.history) \o <<[grid |-> pre.grid, score |-> pre.score]>>)
    /\ [][(call.op = "undo" /\ ret = "true" /\ call'.op = "undo") => ret' = "false"]_vars

C14_OldestDropped ==
    /\ call.op = "move" /\ ret = "true"
    /\ Len(pre.history) = maxHistorySize
    /\ Len(history) = maxHistorySize
    /\ history[1].grid = pre.grid
    /\ pre.history[1].grid # pre.grid

RECURSIVE Pow2(_)
Pow2(e) == IF e = 0 THEN 1 ELSE 2 * Pow2(e - 1)

(* 0, or a power of two that is at least 2. *)
IsTile(v) == v = 0 \/ (v >= 2 /\ Pow2(Log2(v)) = v)

TilesOnly(g) == \A c \in Idx \X Idx : IsTile(g[c[1]][c[2]])

(* C15: in every state reached by init, move and undo calls, every cell   *)
(* of the grid and of every snapshot in the history is 0 or a power of    *)
(* two that is at least 2.                                                *)
C15_PowersOfTwo ==
    /\ TilesOnly(grid)
    /\ \A k \in 1..Len(history) : TilesOnly(history[k].grid)

C15_MergedAfterInit ==
    /\ Committed /\ mid.merged # <<>>
    /\ pre.score = 0
    /\ history # <<>> /\ history[1].grid = pre.grid
    /\ \E c \in Idx \X Idx : grid[c[1]][c[2]] >= 4

(* The score is a natural number, and no move call lowers it. *)
ScoreSound == score \in Nat /\ (call.op = "move" => score >= pre.score)

(* A step that changes the score inside a committed move, by the total of *)
(* the merged values.                                                     *)
ScoreByMove ==
    /\ call'.op = "move" /\ ret' = "true"
    /\ score' = score + MergedTotal(mid'.merged)

(* A step that changes the score by undo(), to the snapshot's score. *)
ScoreByUndo ==
    /\ call'.op = "undo" /\ ret' = "true"
    /\ history # <<>>
    /\ score' = history[Len(history)].score

(* C16 as stated: the score is a non-negative integer in every state and  *)
(* never decreases across a move call; it changes only inside a committed *)
(* move, by the merge total, or by undo, to the snapshot's score.         *)
C16_ScoreOnlyMoveOrUndo ==
    /\ []ScoreSound
    /\ [][score' # score => (ScoreByMove \/ ScoreByUndo)]_vars

(* C16, amended: the score is a non-negative integer in every state and   *)
(* never decreases across a move call; it changes only inside a committed *)
(* move, by the merge total, by undo, to the snapshot's score, or by      *)
(* init(), to 0.                                                          *)
C16_ScoreChanges ==
    /\ []ScoreSound
    /\ [][score' # score
            => (ScoreByMove \/ ScoreByUndo \/ (call'.op = "init" /\ score' = 0))]_vars

C16_ScoreResetByInit ==
    /\ call.op = "init" /\ score = 0
    /\ history # <<>> /\ history[1].score > 0

(* C17: move(direction) always returns a boolean: true exactly when the   *)
(* move was committed (a tile spawned and onUpdate was notified), false   *)
(* when nothing changed and false when the engine was over.               *)
C17_MoveReturnsBoolean ==
    call.op = "move" =>
      /\ ret \in {"true", "false"}
      /\ ret = "true" <=> Count(events, "onUpdate") = 1
      /\ pre.over => ret = "false"

(* C19: for the direction d and the grid g of every move, the restoring   *)
(* call undoes the normalizing call:                                      *)
(* rotateGrid(rotateGrid(g, d), d, true) = g.                             *)
C19_RotateRoundTrip ==
    (call.op = "move" /\ ret # "undefined")
      => rotateGrid(rotateGrid(pre.grid, call.dir, FALSE), call.dir, TRUE) = pre.grid

(* C20: whenever move(d) returns true, the grid it has before the spawn   *)
(* differs from the grid before the move in at least one cell.            *)
C20_MovedMeansChanged ==
    Committed => \E c \in Idx \X Idx : mid.grid[c[1]][c[2]] # pre.grid[c[1]][c[2]]

(* The state left by a move that returned false, made right after a       *)
(* committed move: moved was still true on entry and the snapshot that    *)
(* committed move pushed was still in the history.                        *)
NoOpAfterCommitted == NoOp /\ pre.moved /\ pre.history # <<>>

(* C21: snapshots are pushed only by moves that change the grid, so       *)
(* undo() after a committed move and a move that returned false still     *)
(* restores the grid and score from before the committed move.            *)
C21_UndoSkipsNoOps ==
    [][(NoOpAfterCommitted /\ call'.op = "undo")
         => /\ ret' = "true"
            /\ grid' = pre.history[Len(pre.history)].grid
            /\ score' = pre.history[Len(pre.history)].score]_vars

(* C22: in every state reached by init, move and undo calls, a grid that  *)
(* holds the target value has won true.                                   *)
C22_TargetMeansWon == hasValue(grid, Target) => won

(* C23: snapshots are stored by value. A move pushes a snapshot with the  *)
(* cells of the grid it found in row arrays of its own; in every state no *)
(* snapshot in the history has a row array in common with this.grid (the  *)
(* only arrays written in place) or with another snapshot, so no          *)
(* operation on the live grid changes a stored snapshot; and after undo() *)
(* this.grid is the popped snapshot's grid, no longer in the history.     *)
C23_SnapshotsByValue ==
    /\ Len(refs.history) = Len(history)
    /\ \A k \in 1..Len(refs.history) :
         /\ RowSet(refs.history[k]) \cap RowSet(refs.grid) = {}
         /\ \A j \in 1..Len(refs.history) :
              j # k => RowSet(refs.history[k]) \cap RowSet(refs.history[j]) = {}
    /\ (call.op = "move" /\ ret # "undefined")
         => /\ history[Len(history)].grid = pre.grid
            /\ RowSet(refs.history[Len(refs.history)]) \cap RowSet(pre.refs.grid) = {}
    /\ (call.op = "undo" /\ ret = "true")
         => /\ refs.grid = pre.refs.history[Len(pre.refs.history)]
            /\ grid = pre.history[Len(pre.history)].grid

C23_SnapshotAdopted ==
    /\ call.op = "undo" /\ ret = "true"
    /\ refs.grid = pre.refs.history[1]
    /\ refs.grid # pre.refs.grid
    /\ refs.history = <<>>
    /\ grid # pre.grid

(* C24: in a committed move the status is evaluated before the update is  *)
(* notified: onUpdate is invoked with the spawned tile on the grid, the   *)
(* snapshot pushed, and won and over as the move leaves them.             *)
C24_UpdateAfterStatus ==
    Committed =>
      /\ events # <<>>
      /\ events[1].cb = "onUpdate"
      /\ events[1].grid = grid
      /\ history # <<>> /\ history[Len(history)].grid = pre.grid
      /\ events[1].won = won
      /\ events[1].over = over

(* C25: a successful undo() invokes onUpdate exactly once, with the       *)
(* restored grid and score and the undo tag, and neither onWin nor        *)
(* onGameOver; a committed move invokes onUpdate exactly once, without    *)
(* the tag; a rejected move does not invoke it.                           *)
C25_UpdateEvents ==
    /\ (call.op = "undo" /\ ret = "true")
         => /\ Len(events) = 1
            /\ events[1].cb = "onUpdate"
            /\ events[1].undo
            /\ events[1].grid = grid /\ events[1].score = score
            /\ grid = pre.history[Len(pre.history)].grid
            /\ score = pre.history[Len(pre.history)].score
    /\ Committed
         => /\ Count(events, "onUpdate") = 1
            /\ \A k \in 1..Len(events) : ~events[k].undo
    /\ (call.op = "move" /\ ret # "true") => Count(events, "onUpdate") = 0

C25_UndoNotified ==
    /\ call.op = "undo" /\ ret = "true"
    /\ pre.over /\ hasValue(pre.grid, Target)
    /\ Len(events) = 1 /\ events[1].undo /\ events[1].grid # pre.grid

(* C26: onGameOver is invoked in exactly the committed moves that leave   *)
(* the grid full with no adjacent equal pair, once in such a move, with   *)
(* the score the move leaves; undo, init and rejected moves never invoke  *)
(* it.                                                                    *)
C26_GameOverEvents ==
    /\ Committed
         => /\ Count(events, "onGameOver") = (IF Stuck(grid) THEN 1 ELSE 0)
            /\ \A k \in 1..Len(events) :
                 events[k].cb = "onGameOver" => events[k].score = score
    /\ (call.op \in {"undo", "init"} \/ (call.op = "move" /\ ret # "true"))
         => Count(events, "onGameOver") = 0

C26_GameOverNotified ==
    /\ Committed /\ Stuck(grid) /\ pre.won
    /\ Count(events, "onGameOver") = 1
    /\ events[Len(events)].score = score

(* C27: in every state reached by init, move and undo calls, over is true *)
(* exactly when the grid is full with no adjacent equal pair; so whenever *)
(* over is false, move(d) returns true for at least one direction d: a    *)
(* move(d) called with over false returns true exactly when moveLeft      *)
(* reports a move for d, and it does so for some d in such a state.       *)
C27_NoStuckState ==
    /\ over <=> Stuck(grid)
    /\ (call.op = "move" /\ ~pre.over)
         => (ret = "true"
               <=> moveLeft(rotateGrid(pre.grid, call.dir, FALSE)).moved)
    /\ ~over => \E d \in Dirs : moveLeft(rotateGrid(grid, d, FALSE)).moved

C27_BackInPlay ==
    /\ call.op = "undo" /\ ret = "true"
    /\ Stuck(pre.grid) /\ pre.over
    /\ ~Stuck(grid) /\ ~over
    /\ \E d \in Dirs : moveLeft(rotateGrid(grid, d, FALSE)).moved

(* C28: undo() right after init() returns false and leaves the grid and   *)
(* the score as init() left them, whatever was played before the init().  *)
C28_NoUndoAcrossInit ==
    [][(call.op = "init" /\ call'.op = "undo")
         => (ret' = "false" /\ grid' = grid /\ score' = score)]_vars

(* The sum of all cells of a grid. *)
GridSum(g) == SumSeq(Cells(g))

(* C29: sliding and merging keep the sum of the cells: after a move that  *)
(* returns true the sum is the sum before plus the spawned tile, 2 or 4,  *)
(* and after a move that returns false it is the sum before.              *)
C29_SumConservation ==
    /\ Committed
         => /\ GridSum(mid.grid) = GridSum(pre.grid)
            /\ GridSum(grid) - GridSum(pre.grid) \in {2, 4}
    /\ NoOp => GridSum(grid) = GridSum(pre.grid)

C29_MergedDownward ==
    /\ Committed /\ call.dir = "down"
    /\ Len(mid.merged) >= 2
    /\ Tiles(mid.grid) < Tiles(pre.grid)
    /\ GridSum(grid) = GridSum(pre.grid) + 4

(* C30: forward play terminates: a caller that keeps issuing moves that   *)
(* return true, with no undo() and no init(), makes finitely many of them *)
(* and the engine ends with over true.                                    *)
C30_PlayTerminates == <>[]over

C30_LostAfterMerges ==
    /\ Committed /\ over
    /\ pre.moved /\ pre.history # <<>>
    /\ score >= ScoreOf(pre.grid) + 8
    /\ GridSum(grid) >= GridSum(pre.grid) + 2

====
